---- MODULE Spec2Model ----
(***************************************************************************)
(* Order admission control of the clearing house:                          *)
(* programs/clearing_house/src/order_validation.rs.                        *)
(*                                                                         *)
(* validate_order is a pure function of (order, market, order_state).  The *)
(* model draws the three inputs from bounded sets in Init and applies the  *)
(* function in one step, recording the returned value (result), the        *)
(* diagnostic emitted through msg! (log) and the shared predicates that    *)
(* were called on the way (calls).                                         *)
(*                                                                         *)
(* The order fields are u128 in the program.  The model keeps the checked  *)
(* arithmetic but scales the width down: UMax stands for u128::MAX, and    *)
(* the precision constants are scaled down with it so that products of the *)
(* bounded inputs overflow, divide to zero and land on the thresholds.     *)
(***************************************************************************)
EXTENDS Integers, FiniteSets, Sequences, TLC

(* ---- bounds of the model ---- *)
UMax == 7
MaxPrice == 3
MaxBase == 3
MaxQuote == 3
MaxPeg == 2
MaxMinBase == 2
MaxMinQuote == 2
MaxMinOrder == 2

(* ---- constants of crate::math::constants (scaled) ---- *)
AMM_RESERVE_PRECISION == 2
MARK_PRICE_PRECISION == 4
QUOTE_PRECISION == 2
AMM_TIMES_PEG_TO_QUOTE_PRECISION_RATIO == 3

VARIABLES order, market, order_state, pc, result, log, calls

vars == <<order, market, order_state, pc, result, log, calls>>

OrderTypes == {"Market", "Limit", "Stop", "StopLimit"}
PositionDirections == {"Long", "Short"}
OrderTriggerConditions == {"Above", "Below"}

Orders ==
    [order_type : OrderTypes,
     direction : PositionDirections,
     price : 0..MaxPrice,
     trigger_price : 0..MaxPrice,
     trigger_condition : OrderTriggerConditions,
     base_asset_amount : 0..MaxBase,
     quote_asset_amount : 0..MaxQuote]

Markets ==
    [amm : [peg_multiplier : 0..MaxPeg,
            minimum_base_asset_trade_size : 0..MaxMinBase,
            minimum_quote_asset_trade_size : 0..MaxMinQuote]]

OrderStates == [min_order_quote_asset_amount : 0..MaxMinOrder]

(* ---- diagnostics emitted through msg! ---- *)
MSG_MARKET_BOTH_SIZES == "Market order should not have quote_asset_amount and base_asset_amount set"

MSG_MARKET_TRIGGER == "Market should not have trigger price"

MSG_LIMIT_PRICE_ZERO == "Limit order price == 0"

MSG_LIMIT_TRIGGER == "Limit order should not have trigger price"

MSG_ORDER_VALUE == "Order value < $0.50"

MSG_TRIGGER_ZERO == "Trigger price == 0"

MSG_ABOVE_LONG == "If trigger condition is above and direction is long, limit price must be above trigger price"

MSG_BELOW_SHORT == "If trigger condition is below and direction is short, limit price must be below trigger price"

MSG_STOP_PRICE == "Stop order should not have price"

MSG_STOP_TRIGGER_ZERO == "Stop order trigger_price == 0"

MSG_BASE_ZERO == "Order base_asset_amount cant be 0"

MSG_BASE_MIN == "Order base_asset_amount smaller than market minimum_base_asset_trade_size"

MSG_QUOTE_ZERO == "Order quote_asset_amount cant be 0"

MSG_QUOTE_MIN == "Order quote_asset_reserve_amount smaller than market minimum_quote_asset_trade_size"

(* ---- results ---- *)
\* Ok(()) : no diagnostic.
OkResult(cs) == [code |-> "Ok", msg |-> "", calls |-> cs]

\* msg!(m); return Err(ErrorCode::InvalidOrder)
InvalidOrder(m, cs) == [code |-> "InvalidOrder", msg |-> m, calls |-> cs]

\* .ok_or_else(math_error!())? : the error value the math_error! macro builds.
MathError(cs) == [code |-> "MathError", msg |-> "math_error", calls |-> cs]

(* ---- checked arithmetic on the unsigned width ---- *)
None == -1

checked_mul(a, b) == IF a * b > UMax THEN None ELSE a * b

checked_div(a, b) == IF b = 0 THEN None ELSE a \div b

\* p.checked_mul(base)?.checked_div(AMM_RESERVE_PRECISION)?
\*  .checked_div(MARK_PRICE_PRECISION / QUOTE_PRECISION)?
approx_market_value(p, base) ==
    LET m == checked_mul(p, base)
    IN  IF m = None THEN None
        ELSE LET d == checked_div(m, AMM_RESERVE_PRECISION)
             IN  IF d = None THEN None
                 ELSE checked_div(d, MARK_PRICE_PRECISION \div QUOTE_PRECISION)

\* crate::math::quote_asset::asset_to_reserve_amount: the quote amount times the
\* reserve-to-quote ratio, divided by the peg, both checked; Ok(value) or Err.
asset_to_reserve_amount(quote_asset_amount, peg_multiplier) ==
    LET m == checked_mul(quote_asset_amount, AMM_TIMES_PEG_TO_QUOTE_PRECISION_RATIO)
        d == IF m = None THEN None ELSE checked_div(m, peg_multiplier)
    IN  IF d = None
        THEN [code |-> MathError({}).code, msg |-> MathError({}).msg, value |-> None]
        ELSE [code |-> "Ok", msg |-> "", value |-> d]

(* ---- shared predicates ---- *)
\* Mutant: the zero check is left to the comparison with the market minimum.
validate_base_asset_amount_no_zero_check(o, mkt) ==
    LET cs == {"validate_base_asset_amount"}
    IN  IF o.base_asset_amount < mkt.amm.minimum_base_asset_trade_size
        THEN InvalidOrder(MSG_BASE_MIN, cs)
        ELSE OkResult(cs)

validate_base_asset_amount(o, mkt) ==
    LET cs == {"validate_base_asset_amount"}
    IN  IF o.base_asset_amount = 0
        THEN InvalidOrder(MSG_BASE_ZERO, cs)
        ELSE IF o.base_asset_amount < mkt.amm.minimum_base_asset_trade_size
        THEN InvalidOrder(MSG_BASE_MIN, cs)
        ELSE OkResult(cs)

\* Mutant: a failed conversion is reported as a rejection of the order.
validate_quote_asset_amount_conversion_rejects(o, mkt) ==
    LET cs == {"validate_quote_asset_amount"}
    IN  IF o.quote_asset_amount = 0
        THEN InvalidOrder(MSG_QUOTE_ZERO, cs)
        ELSE LET quote_asset_reserve_amount ==
                     asset_to_reserve_amount(o.quote_asset_amount, mkt.amm.peg_multiplier)
             IN  IF quote_asset_reserve_amount.code # "Ok"
                 THEN InvalidOrder(MSG_QUOTE_MIN, cs)
                 ELSE IF quote_asset_reserve_amount.value
                             < mkt.amm.minimum_quote_asset_trade_size
                 THEN InvalidOrder(MSG_QUOTE_MIN, cs)
                 ELSE OkResult(cs)

validate_quote_asset_amount(o, mkt) ==
    LET cs == {"validate_quote_asset_amount"}
    IN  IF o.quote_asset_amount = 0
        THEN InvalidOrder(MSG_QUOTE_ZERO, cs)
        ELSE LET quote_asset_reserve_amount ==
                     asset_to_reserve_amount(o.quote_asset_amount, mkt.amm.peg_multiplier)
             IN  IF quote_asset_reserve_amount.code # "Ok"
                 THEN [code |-> quote_asset_reserve_amount.code,
                       msg |-> quote_asset_reserve_amount.msg,
                       calls |-> cs]
                 ELSE IF quote_asset_reserve_amount.value
                             < mkt.amm.minimum_quote_asset_trade_size
                 THEN InvalidOrder(MSG_QUOTE_MIN, cs)
                 ELSE OkResult(cs)

(* ---- rule sets ---- *)
\* Mutant: the guard against both sizes being set is missing.
validate_market_order_no_conflict_guard(o, mkt) ==
    LET size == IF o.base_asset_amount > 0
                THEN validate_base_asset_amount(o, mkt)
                ELSE validate_quote_asset_amount(o, mkt)
    IN  IF size.code # "Ok" THEN size
        ELSE IF o.trigger_price > 0
        THEN InvalidOrder(MSG_MARKET_TRIGGER, size.calls)
        ELSE OkResult(size.calls)

validate_market_order(o, mkt) ==
    IF o.quote_asset_amount > 0 /\ o.base_asset_amount > 0
    THEN InvalidOrder(MSG_MARKET_BOTH_SIZES, {})
    ELSE LET size == IF o.base_asset_amount > 0
                     THEN validate_base_asset_amount(o, mkt)
                     ELSE validate_quote_asset_amount(o, mkt)
         IN  IF size.code # "Ok" THEN size
             ELSE IF o.trigger_price > 0
             THEN InvalidOrder(MSG_MARKET_TRIGGER, size.calls)
             ELSE OkResult(size.calls)

\* The notional check shared by the mutants below, with the comparison given.
notional_check(value, rejected, cs) ==
    IF value = None THEN MathError(cs)
    ELSE IF rejected THEN InvalidOrder(MSG_ORDER_VALUE, cs)
    ELSE OkResult(cs)

\* Mutant: the price guard runs before the base-amount rule.
validate_limit_order_price_first(o, mkt, os) ==
    IF o.price = 0
    THEN InvalidOrder(MSG_LIMIT_PRICE_ZERO, {})
    ELSE LET base == validate_base_asset_amount(o, mkt)
             value == approx_market_value(o.price, o.base_asset_amount)
         IN  IF base.code # "Ok" THEN base
             ELSE IF o.trigger_price > 0
             THEN InvalidOrder(MSG_LIMIT_TRIGGER, base.calls)
             ELSE notional_check(value,
                                 value < os.min_order_quote_asset_amount,
                                 base.calls)

\* Mutant: a value equal to the minimum is rejected (<= for <).
validate_limit_order_strict_minimum(o, mkt, os) ==
    LET base == validate_base_asset_amount(o, mkt)
        value == approx_market_value(o.price, o.base_asset_amount)
    IN  IF base.code # "Ok" THEN base
        ELSE IF o.price = 0
        THEN InvalidOrder(MSG_LIMIT_PRICE_ZERO, base.calls)
        ELSE IF o.trigger_price > 0
        THEN InvalidOrder(MSG_LIMIT_TRIGGER, base.calls)
        ELSE notional_check(value,
                            value <= os.min_order_quote_asset_amount,
                            base.calls)

\* Mutant: the base-amount rule is not applied.
validate_limit_order_no_base_rule(o, mkt, os) ==
    LET value == approx_market_value(o.price, o.base_asset_amount)
    IN  IF o.price = 0
        THEN InvalidOrder(MSG_LIMIT_PRICE_ZERO, {})
        ELSE IF o.trigger_price > 0
        THEN InvalidOrder(MSG_LIMIT_TRIGGER, {})
        ELSE notional_check(value, value < os.min_order_quote_asset_amount, {})

validate_limit_order(o, mkt, os) ==
    LET base == validate_base_asset_amount(o, mkt)
    IN  IF base.code # "Ok" THEN base
        ELSE IF o.price = 0
        THEN InvalidOrder(MSG_LIMIT_PRICE_ZERO, base.calls)
        ELSE IF o.trigger_price > 0
        THEN InvalidOrder(MSG_LIMIT_TRIGGER, base.calls)
        ELSE LET value == approx_market_value(o.price, o.base_asset_amount)
             IN  IF value = None THEN MathError(base.calls)
                 ELSE IF value < os.min_order_quote_asset_amount
                 THEN InvalidOrder(MSG_ORDER_VALUE, base.calls)
                 ELSE OkResult(base.calls)

\* Mutant: an overflowing multiplication is reported as a rejection.
validate_stop_limit_order_overflow_rejects(o, mkt, os) ==
    LET base == validate_base_asset_amount(o, mkt)
        value == approx_market_value(o.price, o.base_asset_amount)
    IN  IF base.code # "Ok" THEN base
        ELSE IF o.price = 0
        THEN InvalidOrder(MSG_LIMIT_PRICE_ZERO, base.calls)
        ELSE IF o.trigger_price = 0
        THEN InvalidOrder(MSG_TRIGGER_ZERO, base.calls)
        ELSE IF /\ o.trigger_condition = "Above"
                /\ o.direction = "Long"
                /\ o.price < o.trigger_price
        THEN InvalidOrder(MSG_ABOVE_LONG, base.calls)
        ELSE IF /\ o.trigger_condition = "Below"
                /\ o.direction = "Short"
                /\ o.price > o.trigger_price
        THEN InvalidOrder(MSG_BELOW_SHORT, base.calls)
        ELSE IF value = None \/ value < os.min_order_quote_asset_amount
        THEN InvalidOrder(MSG_ORDER_VALUE, base.calls)
        ELSE OkResult(base.calls)

\* Mutant: the Above check ignores the direction, constraining Above/Short too.
validate_stop_limit_order_symmetric(o, mkt, os) ==
    LET base == validate_base_asset_amount(o, mkt)
        value == approx_market_value(o.price, o.base_asset_amount)
    IN  IF base.code # "Ok" THEN base
        ELSE IF o.price = 0
        THEN InvalidOrder(MSG_LIMIT_PRICE_ZERO, base.calls)
        ELSE IF o.trigger_price = 0
        THEN InvalidOrder(MSG_TRIGGER_ZERO, base.calls)
        ELSE IF /\ o.trigger_condition = "Above"
                /\ o.price < o.trigger_price
        THEN InvalidOrder(MSG_ABOVE_LONG, base.calls)
        ELSE IF /\ o.trigger_condition = "Below"
                /\ o.direction = "Short"
                /\ o.price > o.trigger_price
        THEN InvalidOrder(MSG_BELOW_SHORT, base.calls)
        ELSE notional_check(value,
                            value < os.min_order_quote_asset_amount,
                            base.calls)

validate_stop_limit_order(o, mkt, os) ==
    LET base == validate_base_asset_amount(o, mkt)
    IN  IF base.code # "Ok" THEN base
        ELSE IF o.price = 0
        THEN InvalidOrder(MSG_LIMIT_PRICE_ZERO, base.calls)
        ELSE IF o.trigger_price = 0
        THEN InvalidOrder(MSG_TRIGGER_ZERO, base.calls)
        ELSE IF /\ o.trigger_condition = "Above"
                /\ o.direction = "Long"
                /\ o.price < o.trigger_price
        THEN InvalidOrder(MSG_ABOVE_LONG, base.calls)
        ELSE IF /\ o.trigger_condition = "Below"
                /\ o.direction = "Short"
                /\ o.price > o.trigger_price
        THEN InvalidOrder(MSG_BELOW_SHORT, base.calls)
        ELSE LET value == approx_market_value(o.price, o.base_asset_amount)
             IN  IF value = None THEN MathError(base.calls)
                 ELSE IF value < os.min_order_quote_asset_amount
                 THEN InvalidOrder(MSG_ORDER_VALUE, base.calls)
                 ELSE OkResult(base.calls)

\* Mutant: the venue-wide minimum notional is not compared.
validate_stop_order_no_minimum(o, mkt, os) ==
    LET base == validate_base_asset_amount(o, mkt)
        value == approx_market_value(o.trigger_price, o.base_asset_amount)
    IN  IF base.code # "Ok" THEN base
        ELSE IF o.price > 0
        THEN InvalidOrder(MSG_STOP_PRICE, base.calls)
        ELSE IF o.trigger_price = 0
        THEN InvalidOrder(MSG_STOP_TRIGGER_ZERO, base.calls)
        ELSE notional_check(value, FALSE, base.calls)

\* Mutant: the guard against a price on a Stop order is missing.
validate_stop_order_no_price_guard(o, mkt, os) ==
    LET base == validate_base_asset_amount(o, mkt)
        value == approx_market_value(o.trigger_price, o.base_asset_amount)
    IN  IF base.code # "Ok" THEN base
        ELSE IF o.trigger_price = 0
        THEN InvalidOrder(MSG_STOP_TRIGGER_ZERO, base.calls)
        ELSE notional_check(value,
                            value < os.min_order_quote_asset_amount,
                            base.calls)

validate_stop_order(o, mkt, os) ==
    LET base == validate_base_asset_amount(o, mkt)
    IN  IF base.code # "Ok" THEN base
        ELSE IF o.price > 0
        THEN InvalidOrder(MSG_STOP_PRICE, base.calls)
        ELSE IF o.trigger_price = 0
        THEN InvalidOrder(MSG_STOP_TRIGGER_ZERO, base.calls)
        ELSE LET value == approx_market_value(o.trigger_price, o.base_asset_amount)
             IN  IF value = None THEN MathError(base.calls)
                 ELSE IF value < os.min_order_quote_asset_amount
                 THEN InvalidOrder(MSG_ORDER_VALUE, base.calls)
                 ELSE OkResult(base.calls)

(* ---- dispatcher ---- *)
validate_order(o, mkt, os) ==
    CASE o.order_type = "Market"    -> validate_market_order(o, mkt)
      [] o.order_type = "Limit"     -> validate_limit_order(o, mkt, os)
      [] o.order_type = "Stop"      -> validate_stop_order(o, mkt, os)
      [] o.order_type = "StopLimit" -> validate_stop_limit_order(o, mkt, os)

(* ---- state machine: one validation of one incoming order ---- *)
Init ==
    /\ order \in Orders
    /\ market \in Markets
    /\ order_state \in OrderStates
    /\ pc = "ready"
    /\ result = "none"
    /\ log = ""
    /\ calls = {}

Validate ==
    /\ pc = "ready"
    /\ LET r == validate_order(order, market, order_state)
       IN  /\ result' = r.code
           /\ log' = r.msg
           /\ calls' = r.calls
    /\ pc' = "done"
    /\ UNCHANGED <<order, market, order_state>>

Next == Validate

Spec == Init /\ [][Next]_vars

TypeOK ==
    /\ order \in Orders
    /\ market \in Markets
    /\ order_state \in OrderStates
    /\ pc \in {"ready", "done"}
    /\ result \in {"none", "Ok", "InvalidOrder", "MathError"}

(***************************************************************************)
(* The documented rules, stated on the inputs alone (spec sections 3, 4    *)
(* and 8).  The properties below compare what Validate recorded with them. *)
(***************************************************************************)
Done == pc = "done"

Accepted == Done /\ result = "Ok"

IsMarket == order.order_type = "Market"

IsPriceBearing == order.order_type \in {"Limit", "Stop", "StopLimit"}

MaxOf(a, b) == IF a >= b THEN a ELSE b

\* p of the notional: trigger_price for Stop, price for Limit and StopLimit.
NotionalPrice ==
    IF order.order_type = "Stop" THEN order.trigger_price ELSE order.price

\* p * base_asset_amount as a mathematical integer.
Product == NotionalPrice * order.base_asset_amount

Overflows == Product > UMax

\* floor(floor(p * base / AMM_RESERVE_PRECISION) / (MARK_PRICE_PRECISION / QUOTE_PRECISION))
Notional ==
    (Product \div AMM_RESERVE_PRECISION) \div (MARK_PRICE_PRECISION \div QUOTE_PRECISION)

MinNotional == order_state.min_order_quote_asset_amount

BaseRuleHolds ==
    /\ order.base_asset_amount > 0
    /\ order.base_asset_amount >= market.amm.minimum_base_asset_trade_size

InconsistentAbove ==
    /\ order.trigger_condition = "Above"
    /\ order.direction = "Long"
    /\ order.price < order.trigger_price

InconsistentBelow ==
    /\ order.trigger_condition = "Below"
    /\ order.direction = "Short"
    /\ order.price > order.trigger_price

\* Every guard of the rule set that precedes the notional computation passes.
PassesEarlierGuards ==
    /\ IsPriceBearing
    /\ BaseRuleHolds
    /\ CASE order.order_type = "Limit" ->
              order.price > 0 /\ order.trigger_price = 0
         [] order.order_type = "Stop" ->
              order.price = 0 /\ order.trigger_price > 0
         [] order.order_type = "StopLimit" ->
              /\ order.price > 0
              /\ order.trigger_price > 0
              /\ ~InconsistentAbove
              /\ ~InconsistentBelow

\* The quote-to-reserve conversion of the order's quote amount, on integers.
ConversionFails ==
    \/ order.quote_asset_amount * AMM_TIMES_PEG_TO_QUOTE_PRECISION_RATIO > UMax
    \/ market.amm.peg_multiplier = 0

ReserveAmount ==
    (order.quote_asset_amount * AMM_TIMES_PEG_TO_QUOTE_PRECISION_RATIO)
        \div market.amm.peg_multiplier

(* ---- C1 ---- *)
\* C1: an accepted Market order has exactly one of base_asset_amount and
\* quote_asset_amount non-zero; (0,0) and (>0,>0) are never accepted.
C1_MarketExactlyOneSize ==
    (Accepted /\ IsMarket) =>
        ((order.base_asset_amount > 0) # (order.quote_asset_amount > 0))

\* A Market order sized in quote units only was validated and accepted.
C1_Witness ==
    /\ Accepted
    /\ IsMarket
    /\ order.base_asset_amount = 0
    /\ order.quote_asset_amount > 0

(* ---- C2 ---- *)
\* C2 as stated: no accepted order of any type has a notional value below the
\* venue-wide minimum; for a Market order sized in quote units the notional is
\* its quote_asset_amount.
C2_MinNotionalEveryType ==
    Accepted =>
        /\ IsPriceBearing => (~Overflows /\ Notional >= MinNotional)
        /\ (IsMarket /\ order.quote_asset_amount > 0) =>
               order.quote_asset_amount >= MinNotional

\* C2 amended: the venue-wide minimum notional binds Limit, Stop and StopLimit
\* orders only; the outcome of a Market order does not depend on
\* min_order_quote_asset_amount.
C2_MinNotionalPriceBearing ==
    /\ (Accepted /\ IsPriceBearing) => (~Overflows /\ Notional >= MinNotional)
    /\ (Done /\ IsMarket) =>
           \A os \in OrderStates :
               validate_order(order, market, os).code = result

\* A Stop order whose notional equals a non-zero venue minimum was accepted.
C2_Witness ==
    /\ Accepted
    /\ order.order_type = "Stop"
    /\ MinNotional > 0
    /\ Notional = MinNotional

(* ---- C4 ---- *)
\* C4: a Limit, Stop or StopLimit order that passes every earlier guard and
\* whose multiplication does not overflow is accepted if and only if its
\* floored notional is at least min_order_quote_asset_amount.
C4_NotionalBoundary ==
    (Done /\ PassesEarlierGuards /\ ~Overflows) =>
        (result = "Ok" <=> Notional >= MinNotional)

\* A Limit order whose notional equals a non-zero venue minimum was accepted.
C4_Witness ==
    /\ Accepted
    /\ order.order_type = "Limit"
    /\ PassesEarlierGuards
    /\ MinNotional > 0
    /\ Notional = MinNotional

(* ---- C5 ---- *)
\* C5: when p * base_asset_amount overflows after all earlier guards passed,
\* the arithmetic failure is returned (never Ok, never InvalidOrder); and an
\* arithmetic failure is returned only then or when the quote-to-reserve
\* conversion of a quote-sized Market order fails.
C5_ArithmeticFailure ==
    Done =>
        /\ (PassesEarlierGuards /\ Overflows) =>
               (result = "MathError" /\ result \notin {"Ok", "InvalidOrder"})
        /\ result = "MathError" =>
               \/ PassesEarlierGuards /\ Overflows
               \/ /\ IsMarket
                  /\ order.base_asset_amount = 0
                  /\ order.quote_asset_amount > 0
                  /\ ConversionFails

\* A StopLimit order passed its guards and its multiplication overflowed.
C5_Witness ==
    /\ Done
    /\ order.order_type = "StopLimit"
    /\ PassesEarlierGuards
    /\ Overflows
    /\ result = "MathError"

(* ---- C3 ---- *)
\* The rule sets of spec sections 4.2 to 4.7 as the documented sequence of
\* guards, each under the name the spec gives its reason; an arithmetic failure
\* takes its place in the sequence.
NoReason == "none"

FirstOf(reasons) ==
    IF \A i \in DOMAIN reasons : reasons[i] = NoReason
    THEN NoReason
    ELSE reasons[CHOOSE i \in DOMAIN reasons :
                    /\ reasons[i] # NoReason
                    /\ \A j \in DOMAIN reasons : j < i => reasons[j] = NoReason]

When(violated, reason) == IF violated THEN reason ELSE NoReason

BaseRuleReason(o, mkt) ==
    FirstOf(<<When(o.base_asset_amount = 0, "ZeroBaseAmount"),
              When(o.base_asset_amount < mkt.amm.minimum_base_asset_trade_size,
                   "BelowMinimumBaseSize")>>)

QuoteRuleReason(o, mkt) ==
    LET product == o.quote_asset_amount * AMM_TIMES_PEG_TO_QUOTE_PRECISION_RATIO
    IN  IF o.quote_asset_amount = 0 THEN "ZeroQuoteAmount"
        ELSE IF product > UMax \/ mkt.amm.peg_multiplier = 0 THEN "ArithmeticFailure"
        ELSE When(product \div mkt.amm.peg_multiplier
                      < mkt.amm.minimum_quote_asset_trade_size,
                  "BelowMinimumQuoteSize")

NotionalReason(p, o, os) ==
    IF p * o.base_asset_amount > UMax THEN "ArithmeticFailure"
    ELSE When(((p * o.base_asset_amount) \div AMM_RESERVE_PRECISION)
                  \div (MARK_PRICE_PRECISION \div QUOTE_PRECISION)
                  < os.min_order_quote_asset_amount,
              "BelowGlobalMinimumNotional")

FirstViolatedGuard(o, mkt, os) ==
    CASE o.order_type = "Market" ->
           FirstOf(<<When(o.base_asset_amount > 0 /\ o.quote_asset_amount > 0,
                          "ConflictingSizeSpecification"),
                     IF o.base_asset_amount > 0
                     THEN BaseRuleReason(o, mkt)
                     ELSE QuoteRuleReason(o, mkt),
                     When(o.trigger_price > 0, "UnexpectedTriggerPrice")>>)
      [] o.order_type = "Limit" ->
           FirstOf(<<BaseRuleReason(o, mkt),
                     When(o.price = 0, "ZeroPrice"),
                     When(o.trigger_price > 0, "UnexpectedTriggerPrice"),
                     NotionalReason(o.price, o, os)>>)
      [] o.order_type = "Stop" ->
           FirstOf(<<BaseRuleReason(o, mkt),
                     When(o.price > 0, "UnexpectedPrice"),
                     When(o.trigger_price = 0, "ZeroTriggerPrice"),
                     NotionalReason(o.trigger_price, o, os)>>)
      [] o.order_type = "StopLimit" ->
           FirstOf(<<BaseRuleReason(o, mkt),
                     When(o.price = 0, "ZeroPrice"),
                     When(o.trigger_price = 0, "ZeroTriggerPrice"),
                     When(/\ o.trigger_condition = "Above"
                          /\ o.direction = "Long"
                          /\ o.price < o.trigger_price,
                          "InconsistentTriggerAbove"),
                     When(/\ o.trigger_condition = "Below"
                          /\ o.direction = "Short"
                          /\ o.price > o.trigger_price,
                          "InconsistentTriggerBelow"),
                     NotionalReason(o.price, o, os)>>)

\* The rejection reasons a rule set can give.
ReasonsOf(type) ==
    {"ZeroBaseAmount", "BelowMinimumBaseSize"} \cup
    (CASE type = "Market" ->
            {"ConflictingSizeSpecification", "ZeroQuoteAmount",
             "BelowMinimumQuoteSize", "UnexpectedTriggerPrice"}
       [] type = "Limit" ->
            {"ZeroPrice", "UnexpectedTriggerPrice", "BelowGlobalMinimumNotional"}
       [] type = "Stop" ->
            {"UnexpectedPrice", "ZeroTriggerPrice", "BelowGlobalMinimumNotional"}
       [] type = "StopLimit" ->
            {"ZeroPrice", "ZeroTriggerPrice", "InconsistentTriggerAbove",
             "InconsistentTriggerBelow", "BelowGlobalMinimumNotional"})

\* The diagnostic the program emits for a guard of a rule set.
DiagnosticOf(type, reason) ==
    CASE reason = "ConflictingSizeSpecification" -> MSG_MARKET_BOTH_SIZES
      [] reason = "ZeroBaseAmount" -> MSG_BASE_ZERO
      [] reason = "BelowMinimumBaseSize" -> MSG_BASE_MIN
      [] reason = "ZeroQuoteAmount" -> MSG_QUOTE_ZERO
      [] reason = "BelowMinimumQuoteSize" -> MSG_QUOTE_MIN
      [] reason = "UnexpectedTriggerPrice" ->
           IF type = "Market" THEN MSG_MARKET_TRIGGER ELSE MSG_LIMIT_TRIGGER
      [] reason = "ZeroPrice" -> MSG_LIMIT_PRICE_ZERO
      [] reason = "UnexpectedPrice" -> MSG_STOP_PRICE
      [] reason = "ZeroTriggerPrice" ->
           IF type = "Stop" THEN MSG_STOP_TRIGGER_ZERO ELSE MSG_TRIGGER_ZERO
      [] reason = "InconsistentTriggerAbove" -> MSG_ABOVE_LONG
      [] reason = "InconsistentTriggerBelow" -> MSG_BELOW_SHORT
      [] reason = "BelowGlobalMinimumNotional" -> MSG_ORDER_VALUE

ConsistencyDiagnostics == {MSG_ABOVE_LONG, MSG_BELOW_SHORT}

\* C6: a StopLimit order that passes the base-amount, price and trigger_price
\* guards is rejected by the consistency step if and only if it is Above/Long
\* with price < trigger_price or Below/Short with price > trigger_price;
\* Above/Short and Below/Long are never rejected by that step.
C6_StopLimitConsistency ==
    (/\ Done
     /\ order.order_type = "StopLimit"
     /\ BaseRuleHolds
     /\ order.price > 0
     /\ order.trigger_price > 0) =>
        /\ (result = "InvalidOrder" /\ log \in ConsistencyDiagnostics)
               <=> (InconsistentAbove \/ InconsistentBelow)
        /\ log = MSG_ABOVE_LONG <=> InconsistentAbove
        /\ log = MSG_BELOW_SHORT <=> InconsistentBelow

\* A Long/Above StopLimit order with price below trigger_price was rejected by
\* the consistency step.
C6_Witness ==
    /\ Done
    /\ order.order_type = "StopLimit"
    /\ order.direction = "Long"
    /\ order.trigger_condition = "Above"
    /\ BaseRuleHolds
    /\ order.price > 0
    /\ order.price < order.trigger_price
    /\ log = MSG_ABOVE_LONG

(* ---- C7 ---- *)
BaseRuleApplied == "validate_base_asset_amount" \in calls

QuoteRuleApplied == "validate_quote_asset_amount" \in calls

BaseRuleRejected == Done /\ log \in {MSG_BASE_ZERO, MSG_BASE_MIN}

\* C7 as stated, for a Limit, Stop or StopLimit order: whenever some base amount
\* is accepted with everything else held fixed, the order is accepted exactly
\* when base_asset_amount is at least minimum_base_asset_trade_size.
C7_BoundaryAtMinimum ==
    (/\ Done
     /\ IsPriceBearing
     /\ \E b \in 0..MaxBase :
            validate_order([order EXCEPT !.base_asset_amount = b],
                           market, order_state).code = "Ok") =>
        (result = "Ok"
            <=> order.base_asset_amount >= market.amm.minimum_base_asset_trade_size)

\* C7 amended: wherever validate_order applies the base-amount rule, the rule
\* rejects every base_asset_amount below max(1, minimum_base_asset_trade_size)
\* and passes every other one, so its single boundary is at 1 when the minimum
\* is 0; passing it is necessary for acceptance, not sufficient.
C7_BaseRuleBoundary ==
    (Done /\ BaseRuleApplied) =>
        /\ BaseRuleRejected <=>
               order.base_asset_amount
                   < MaxOf(1, market.amm.minimum_base_asset_trade_size)
        /\ BaseRuleRejected => result = "InvalidOrder"
        /\ result = "Ok" =>
               order.base_asset_amount
                   >= MaxOf(1, market.amm.minimum_base_asset_trade_size)

\* With a minimum of 0, a Limit order of base amount 0 was rejected by the
\* base-amount rule although every other guard would pass.
C7_Witness ==
    /\ Done
    /\ order.order_type = "Limit"
    /\ market.amm.minimum_base_asset_trade_size = 0
    /\ order.base_asset_amount = 0
    /\ order.price > 0
    /\ order.trigger_price = 0
    /\ MinNotional = 0
    /\ BaseRuleApplied
    /\ log = MSG_BASE_ZERO

C9_PriceTriggerMatchType ==
    /\ Accepted =>
           CASE order.order_type = "Market" -> order.trigger_price = 0
             [] order.order_type = "Limit" ->
                  order.price > 0 /\ order.trigger_price = 0
             [] order.order_type = "Stop" ->
                  order.price = 0 /\ order.trigger_price > 0
             [] order.order_type = "StopLimit" ->
                  order.price > 0 /\ order.trigger_price > 0
    /\ (Done /\ order.order_type = "Stop" /\ order.price > 0) =>
           result = "InvalidOrder"

\* A Stop order with a valid base amount, a trigger and a price was rejected
\* for carrying a price.
C9_Witness ==
    /\ Done
    /\ order.order_type = "Stop"
    /\ BaseRuleHolds
    /\ order.price > 0
    /\ order.trigger_price > 0
    /\ result = "InvalidOrder"
    /\ log = MSG_STOP_PRICE

(* ---- C10 ---- *)
\* C10: a Market order with base_asset_amount == 0 is accepted if and only if
\* quote_asset_amount > 0, the conversion succeeds with a result of at least
\* minimum_quote_asset_trade_size, and trigger_price == 0; when the conversion
\* fails, the conversion's own error is what validate_order returns.
C10_QuoteSizedMarket ==
    (Done /\ IsMarket /\ order.base_asset_amount = 0) =>
        /\ result = "Ok" <=>
               /\ order.quote_asset_amount > 0
               /\ ~ConversionFails
               /\ ReserveAmount >= market.amm.minimum_quote_asset_trade_size
               /\ order.trigger_price = 0
        /\ (order.quote_asset_amount > 0 /\ ConversionFails) =>
               LET conversion == asset_to_reserve_amount(order.quote_asset_amount,
                                                         market.amm.peg_multiplier)
               IN  /\ conversion.code # "Ok"
                   /\ result = conversion.code
                   /\ log = conversion.msg
                   /\ result # "InvalidOrder"

\* A quote-sized Market order whose conversion failed got the conversion's
\* error back.
C10_Witness ==
    /\ Done
    /\ IsMarket
    /\ order.base_asset_amount = 0
    /\ order.quote_asset_amount > 0
    /\ ConversionFails
    /\ result = "MathError"
====
